---- MODULE Spec2Model ----
(***************************************************************************)
(* Model of particles_vedo.py: Particle (one vedo Sphere per particle),    *)
(* Particles (the collection bound to a positions buffer) and              *)
(* ParticleSimulation (parameters, numpy buffers, the particle_driver      *)
(* calls, the run loop and the destructor).                                *)
(*                                                                         *)
(* particle_driver (the Fortran extension) and the vedo Plotter are not    *)
(* part of the Python source; they are modelled as mocks that follow the   *)
(* interface contract.  init_system, get_sizes, get_positions,             *)
(* collision_check, boundary_check and update may raise, and the exception *)
(* then leaves the Python method at that statement; a call that needs      *)
(* engine state raises when none is allocated.  deallocate_system returns  *)
(* when state is allocated; called without allocated state it is outside   *)
(* the contract and either returns or ends the process (an ended process   *)
(* takes no further step, which every behaviour of the model may do).      *)
(***************************************************************************)
EXTENDS Integers, Sequences, FiniteSets, TLC

VARIABLES
    \* ParticleSimulation attributes
    n_particles, r_min, r_max, v_max, initialised,
    positions,        \* self.__positions   : value of the [n,2] array
    positions_3d,     \* self.__positions_3d: identity of the [n,3] array in heap3d
    sizes,            \* self.__sizes       : value of the [n] array
    particles,        \* self.__particles   : the Particles object, or None
    heap3d,           \* the live [n,3] numpy arrays, by identity
    \* Plotter (scene)
    actors,           \* identities of the spheres added to the plotter
    escaped,          \* plt.escaped
    \* particle_driver (engine)
    eng_allocated, eng_pos, eng_sizes,
    \* control: which statement of which method the single thread is at
    pc,
    reset_cam, iter,  \* locals of run(): the flag and the iteration count (no run(): FALSE, 0)
    exc,              \* what the last finished method call raised ("none" if nothing)
    \* history of the calls made
    eng_trace,        \* init_system / deallocate_system calls, in order
    init_args,        \* arguments of the most recent init_system call
    run_trace,        \* calls made by run(), in order, until the next method call
    returned,         \* positions written by the last get_positions call that returned
    init_exc,         \* what the most recent __init_system raised ("none" if nothing)
    del_deallocs,     \* deallocate_system calls made by __del__
    n_inits, runs, teardowns, n_fail

vars == <<n_particles, r_min, r_max, v_max, initialised, positions, positions_3d,
          sizes, particles, heap3d, actors, escaped, eng_allocated, eng_pos,
          eng_sizes, pc, reset_cam, iter, exc, eng_trace, init_args, run_trace,
          returned, init_exc, del_deallocs, n_inits, runs, teardowns, n_fail>>

----------------------------------------------------------------------------
\* Bounds of the model
MaxCount == 2        \* particle counts are 1..MaxCount
MaxInits == 2        \* __init_system invocations (the constructor's included)
MaxIters == 3        \* loop iterations of one run()
MaxRuns == 1         \* run() invocations
MaxTeardowns == 2    \* __del__ invocations
MaxLen == 3          \* array lengths given to a stand-alone Particles(...)
MaxFailures == 1     \* driver calls that raise

\* Program constants
DefaultRes == 8      \* Particle.__init__ res=8

Counts == 1..MaxCount
\* Sample values: the engine configurations, and the values given to the
\* real-valued parameters r_min, r_max and v_max
Coord == {1, 2}
Params == {1, 2}
None == [none |-> TRUE]
NoArgs == <<>>

Min(a, b) == IF a <= b THEN a ELSE b

\* All sequences of length n over S
SeqN(S, n) == [1..n -> S]

----------------------------------------------------------------------------
\* numpy

\* np.zeros([n, 2]), np.zeros([n, 3]), np.zeros([n])
Zeros2(n) == [i \in 1..n |-> <<0, 0>>]
Zeros3(n) == [i \in 1..n |-> <<0, 0, 0>>]
Zeros1(n) == [i \in 1..n |-> 0]

\* a3[:, :2] = a2   (the third column is not written)
AssignXY(a3, a2) == [i \in 1..Len(a3) |-> <<a2[i][1], a2[i][2], a3[i][3]>>]

\* a3[:, 2] = 0.0
AssignZ(a3) == [i \in 1..Len(a3) |-> <<a3[i][1], a3[i][2], 0>>]

\* The identity of a freshly allocated [n,3] array: one no live array has.
NewId(heap) == CHOOSE k \in 1..3 : k \notin DOMAIN heap

\* The arrays still referenced (by the simulation or by its Particles object).
Collect(heap, keep) == [k \in (DOMAIN heap) \cap keep |-> heap[k]]

----------------------------------------------------------------------------
\* vedo

\* Sphere(pos, r=, c=, res=): the primitive; pos is copied into the actor
Sphere(id, pos, r, c, res) == [id |-> id, pos |-> pos, r |-> r, c |-> c, res |-> res]

----------------------------------------------------------------------------
\* class Particle.  pos is a row view of a [n,3] array: [buf |-> id, row |-> i].

\* Particle.__init__(plt, pos, radius): color 'gray', res=8, use_trail=False
ParticleInit(id, view, val, radius) ==
    [pos |-> view, r |-> radius, color |-> "gray", res |-> DefaultRes,
     use_trail |-> FALSE,
     vsphere |-> Sphere(id, val, radius, "gray", DefaultRes)]

\* pos.setter: stores the view and moves the sphere to its current value
PosSetter(p, view, heap) ==
    [p EXCEPT !.pos = view, !.vsphere.pos = heap[view.buf][view.row]]

\* (mutant) the r setter also resizes the sphere
RSetter_Resizes(p, r) == [p EXCEPT !.r = r, !.vsphere.r = r]

\* r.setter, color.setter, res.setter: store the attribute only
RSetter(p, r) == [p EXCEPT !.r = r]
ColorSetter(p, c) == [p EXCEPT !.color = c]
ResSetter(p, res) == [p EXCEPT !.res = res]

\* the value read through the pos property
PosValue(p, heap) == heap[p.pos.buf][p.pos.row]

----------------------------------------------------------------------------
\* class Particles

\* (mutant) the loop over the pairs stops one pair early
ZipLen_StopsEarly(arr, szs) == Min(Len(arr), Len(szs)) - 1

\* The number of (pos, size) pairs zip(positions, sizes) yields
ZipLen(arr, szs) == Min(Len(arr), Len(szs))

\* Particles.__init__(plt, positions, sizes): one Particle per zipped pair;
\* base is the number of spheres the plotter holds already
ParticlesInit(buf, arr, szs, base) ==
    [positions |-> buf, sizes |-> szs,
     particles |-> [i \in 1..ZipLen(arr, szs) |->
                      ParticleInit(base + i, [buf |-> buf, row |-> i], arr[i], szs[i])]]

\* the spheres Particle.__init__ handed to plt.add
SphereIds(coll) == {coll.particles[i].vsphere.id : i \in DOMAIN coll.particles}

\* Particles.update(): p.pos = self.__positions[i] for every particle
ParticlesUpdate(coll, heap) ==
    [coll EXCEPT !.particles =
        [i \in DOMAIN coll.particles |->
            PosSetter(coll.particles[i], [buf |-> coll.positions, row |-> i], heap)]]

----------------------------------------------------------------------------
\* particle_driver (mock of the Fortran extension, from its interface contract)

\* radii the engine draws for n particles from [rmin, rmax]
EngineSizes(n, rmin, rmax) == [i \in 1..n |-> IF i % 2 = 1 THEN rmin ELSE rmax]

\* the position vectors an engine with n particles can hold: particle i of
\* configuration s is at (s + i, s * i), so particles and axes are told apart
EnginePositions(n) == {[i \in 1..n |-> <<s + i, s * i>>] : s \in Coord}

\* one call record of the allocation trace; live: was state allocated at the call
Call(op, ok, live) == [op |-> op, ok |-> ok, live |-> live]

----------------------------------------------------------------------------
\* class ParticleSimulation

\* where a call of __init_system may raise ("none": it returns normally)
InitFailures == {"none", "init_system", "get_sizes", "get_positions"}

\* (mutant) __init_system never deallocates the previous engine state
NeedsDeallocate_Never(flag) == FALSE

\* line 114: if self.initialised
NeedsDeallocate(flag) == flag

\* (mutant) r_min is handed over in the place of r_max
InitArgs_RMinTwice(n, rmin, rmax, vmax) == <<n, rmin, rmin, vmax>>

\* lines 124-125: the arguments handed to init_system
InitArgs(n, rmin, rmax, vmax) == <<n, rmin, rmax, vmax>>

\* lines 129-130: the [n,3] array after the 2D positions are copied in
Fill3d(a3, a2) == AssignZ(AssignXY(a3, a2))

\* (mutant) the per-frame copy writes the columns in the wrong order
Sync3d_Transposed(a3, a2) == [i \in 1..Len(a3) |-> <<a2[i][2], a2[i][1], a3[i][3]>>]

\* line 153: self.__positions_3d[:, :2] = self.__positions
Sync3d(a3, a2) == AssignXY(a3, a2)

\* heap with array k set to a
Store(heap, k, a) == [j \in (DOMAIN heap) \cup {k} |-> IF j = k THEN a ELSE heap[j]]

\* the [n,3] arrays a simulation with these attributes keeps alive
Referenced(p3d, coll) == {p3d} \cup (IF coll = None THEN {} ELSE {coll.positions})

\* __init_system (lines 111-135) entered with self.initialised = flag and the
\* parameters n, rmin, rmax, vmax; the driver raises at `fail`; p0 are the
\* positions the engine sets up
InitSystem(flag, n, rmin, rmax, vmax, fail, p0) ==
    LET dealloc == NeedsDeallocate(flag)
        i_ok == fail # "init_system"              \* got past line 125
        s_ok == i_ok /\ fail # "get_sizes"        \* got past line 126
        p_ok == s_ok /\ fail # "get_positions"    \* got past line 127
        alloc1 == eng_allocated /\ ~dealloc
        tr1 == IF dealloc
               THEN Append(eng_trace, Call("deallocate_system", TRUE, eng_allocated))
               ELSE eng_trace
        id == NewId(heap3d)
        szs == IF s_ok THEN EngineSizes(n, rmin, rmax) ELSE Zeros1(n)
        a3 == IF p_ok THEN Fill3d(Zeros3(n), p0) ELSE Zeros3(n)
        coll == IF p_ok THEN ParticlesInit(id, a3, szs, Cardinality(actors))
                ELSE particles
    IN  /\ fail \in InitFailures
        /\ fail # "none" => n_fail < MaxFailures
        /\ n_fail' = IF fail = "none" THEN n_fail ELSE n_fail + 1
        /\ p0 \in EnginePositions(n)
        /\ eng_trace' = Append(tr1, Call("init_system", i_ok, alloc1))
        /\ init_args' = InitArgs(n, rmin, rmax, vmax)
        /\ eng_allocated' = (i_ok \/ alloc1)
        /\ eng_pos' = IF i_ok THEN p0 ELSE IF alloc1 THEN eng_pos ELSE <<>>
        /\ eng_sizes' = IF i_ok THEN EngineSizes(n, rmin, rmax)
                        ELSE IF alloc1 THEN eng_sizes ELSE <<>>
        /\ positions' = IF p_ok THEN p0 ELSE Zeros2(n)
        /\ sizes' = szs
        /\ positions_3d' = id
        /\ particles' = coll
        /\ heap3d' = Collect(Store(heap3d, id, a3), Referenced(id, coll))
        /\ actors' = IF p_ok THEN actors \cup SphereIds(coll) ELSE actors
        /\ returned' = IF p_ok THEN p0 ELSE returned
        /\ run_trace' = <<>>
        /\ initialised' = (p_ok \/ flag)
        /\ exc' = fail
        /\ init_exc' = fail
        /\ n_inits' = n_inits + 1

\* the state of a ParticleSimulation object before __init__ has run
Init ==
    /\ n_particles = 0 /\ r_min = 0 /\ r_max = 0 /\ v_max = 0
    /\ initialised = FALSE
    /\ positions = <<>> /\ positions_3d = 0 /\ sizes = <<>>
    /\ particles = None
    /\ heap3d = [k \in {} |-> <<>>]
    /\ actors = {}
    /\ escaped \in BOOLEAN
    /\ eng_allocated = FALSE /\ eng_pos = <<>> /\ eng_sizes = <<>>
    /\ pc = "new" /\ reset_cam = FALSE /\ iter = 0
    /\ exc = "none"
    /\ eng_trace = <<>> /\ init_args = NoArgs /\ run_trace = <<>>
    /\ returned = <<>>
    /\ init_exc = "none" /\ del_deallocs = 0
    /\ n_inits = 0 /\ runs = 0 /\ teardowns = 0 /\ n_fail = 0

\* ParticleSimulation(plt, n, rmin, rmax, vmax)  (lines 96-109); when it raises,
\* the half-built object is unreachable and only its destructor runs
Construct ==
    \E n \in Counts, rmin \in Params, rmax \in Params, vmax \in Params,
       fail \in InitFailures :
      \E p0 \in EnginePositions(n) :
        /\ pc = "new"
        /\ n_particles' = n /\ r_min' = rmin /\ r_max' = rmax /\ v_max' = vmax
        /\ InitSystem(FALSE, n, rmin, rmax, vmax, fail, p0)
        /\ pc' = IF fail = "none" THEN "idle" ELSE "ctor_failed"
        /\ UNCHANGED <<escaped, reset_cam, iter, runs, teardowns, del_deallocs>>

\* n_particles.setter (lines 178-181)
SetNParticles ==
    \E n \in Counts, fail \in InitFailures :
      \E p0 \in EnginePositions(n) :
        /\ pc = "idle" /\ n_inits < MaxInits
        /\ n_particles' = n
        /\ InitSystem(initialised, n, r_min, r_max, v_max, fail, p0)
        /\ UNCHANGED <<r_min, r_max, v_max, escaped, pc, reset_cam, iter,
                       runs, teardowns, del_deallocs>>

\* r_min.setter (lines 187-190)
SetRMin ==
    \E v \in Params, fail \in InitFailures, p0 \in EnginePositions(n_particles) :
        /\ pc = "idle" /\ n_inits < MaxInits
        /\ r_min' = v
        /\ InitSystem(initialised, n_particles, v, r_max, v_max, fail, p0)
        /\ UNCHANGED <<n_particles, r_max, v_max, escaped, pc, reset_cam, iter,
                       runs, teardowns, del_deallocs>>

\* r_max.setter (lines 196-199)
SetRMax ==
    \E v \in Params, fail \in InitFailures, p0 \in EnginePositions(n_particles) :
        /\ pc = "idle" /\ n_inits < MaxInits
        /\ r_max' = v
        /\ InitSystem(initialised, n_particles, r_min, v, v_max, fail, p0)
        /\ UNCHANGED <<n_particles, r_min, v_max, escaped, pc, reset_cam, iter,
                       runs, teardowns, del_deallocs>>

\* v_max.setter (lines 205-208)
SetVMax ==
    \E v \in Params, fail \in InitFailures, p0 \in EnginePositions(n_particles) :
        /\ pc = "idle" /\ n_inits < MaxInits
        /\ v_max' = v
        /\ InitSystem(initialised, n_particles, r_min, r_max, v, fail, p0)
        /\ UNCHANGED <<n_particles, r_min, r_max, escaped, pc, reset_cam, iter,
                       runs, teardowns, del_deallocs>>

\* line 172: __del__ calls deallocate_system() whatever self.initialised is
DelDeallocates(flag) == TRUE

\* __del__ (lines 165-172)
Del ==
    /\ pc \in {"idle", "ctor_failed", "deleted"}
    /\ teardowns < MaxTeardowns
    /\ IF DelDeallocates(initialised)
       THEN /\ eng_trace' = Append(eng_trace,
                                   Call("deallocate_system", TRUE, eng_allocated))
            /\ del_deallocs' = del_deallocs + 1
            /\ eng_allocated' = FALSE
            /\ eng_pos' = <<>>
            /\ eng_sizes' = <<>>
       ELSE UNCHANGED <<eng_trace, del_deallocs, eng_allocated, eng_pos, eng_sizes>>
    /\ exc' = "none"
    /\ pc' = "deleted"
    /\ teardowns' = teardowns + 1
    /\ UNCHANGED <<n_particles, r_min, r_max, v_max, initialised, positions,
                   positions_3d, sizes, particles, heap3d, actors, escaped,
                   reset_cam, iter, init_args, run_trace, returned, init_exc,
                   n_inits, runs, n_fail>>

----------------------------------------------------------------------------
\* ParticleSimulation.run (lines 137-163), one action per statement of the loop

\* (mutant) the Particle objects are updated before the positions are fetched
RunOrder_UpdateBeforeFetch ==
    <<"collision_check", "boundary_check", "update", "particles_update",
      "get_positions", "copy", "show", "check">>

\* (mutant) plt.escaped is read before the frame is shown
RunOrder_CheckBeforeShow ==
    <<"collision_check", "boundary_check", "update", "get_positions",
      "copy", "particles_update", "check", "show">>

\* the statements of the loop body, in program order (lines 148-163)
RunOrder == <<"collision_check", "boundary_check", "update", "get_positions",
              "copy", "particles_update", "show", "check">>

\* the statement executed after statement p of the loop body
NextPc(p) ==
    LET k == CHOOSE j \in 1..Len(RunOrder) : RunOrder[j] = p
    IN  RunOrder[(k % Len(RunOrder)) + 1]

\* one call record of run_trace: the call, its loop iteration, the flag it is
\* given or returns, and whether it returned normally
RunCall(op, flag, ok) == [op |-> op, iter |-> iter, flag |-> flag, ok |-> ok]

\* lines 143-147: reset_cam = True, enter the loop
RunBegin ==
    /\ pc = "idle" /\ runs < MaxRuns
    /\ runs' = runs + 1
    /\ reset_cam' = TRUE
    /\ iter' = 1
    /\ run_trace' = <<>>
    /\ exc' = "none"
    /\ pc' = RunOrder[1]
    /\ UNCHANGED <<n_particles, r_min, r_max, v_max, initialised, positions,
                   positions_3d, sizes, particles, heap3d, actors, escaped,
                   eng_allocated, eng_pos, eng_sizes, eng_trace, init_args,
                   returned, n_inits, teardowns, n_fail, init_exc, del_deallocs>>

\* (mutant) the loop catches the exception and makes the same call again
OnRaise_Retries(p) == p

\* lines 147-163: the loop has no try/except, so an exception raised at
\* statement p leaves run() for the caller
OnRaise(p) == "idle"

\* a driver call of the loop raising: the exception leaves run()
Raise(op) ==
    /\ ~eng_allocated \/ n_fail < MaxFailures
    /\ n_fail' = IF eng_allocated THEN n_fail + 1 ELSE n_fail
    /\ run_trace' = Append(run_trace, RunCall(op, FALSE, FALSE))
    /\ exc' = op
    /\ pc' = OnRaise(pc) /\ reset_cam' = FALSE /\ iter' = 0
    /\ UNCHANGED <<n_particles, r_min, r_max, v_max, initialised, positions,
                   positions_3d, sizes, particles, heap3d, actors, escaped,
                   eng_allocated, eng_pos, eng_sizes, eng_trace,
                   init_args, returned, n_inits, runs, teardowns, init_exc, del_deallocs>>

\* a driver call of the loop returning, leaving the engine positions at p
Return(op, p) ==
    /\ eng_allocated
    /\ eng_pos' = p
    /\ run_trace' = Append(run_trace, RunCall(op, FALSE, TRUE))
    /\ pc' = NextPc(pc)
    /\ UNCHANGED <<n_particles, r_min, r_max, v_max, initialised, positions_3d,
                   sizes, particles, heap3d, actors, escaped, eng_allocated,
                   eng_sizes, reset_cam, iter, exc, eng_trace, init_args,
                   n_inits, runs, teardowns, n_fail, init_exc, del_deallocs>>

\* line 148: particle_driver.collision_check()
CollisionCheck ==
    /\ pc = "collision_check"
    /\ \/ Raise("collision_check")
       \/ Return("collision_check", eng_pos) /\ UNCHANGED <<positions, returned>>

\* line 149: particle_driver.boundary_check()
BoundaryCheck ==
    /\ pc = "boundary_check"
    /\ \/ Raise("boundary_check")
       \/ Return("boundary_check", eng_pos) /\ UNCHANGED <<positions, returned>>

\* line 150: particle_driver.update(): the engine moves the particles
EngineUpdate ==
    /\ pc = "update"
    /\ \/ Raise("update")
       \/ \E p \in EnginePositions(Len(eng_pos)) :
            Return("update", p) /\ UNCHANGED <<positions, returned>>

\* line 151: particle_driver.get_positions(self.__positions)
GetPositions ==
    /\ pc = "get_positions"
    /\ \/ Raise("get_positions")
       \/ /\ Len(eng_pos) = Len(positions)
          /\ Return("get_positions", eng_pos)
          /\ positions' = eng_pos
          /\ returned' = eng_pos

\* line 153: self.__positions_3d[:, :2] = self.__positions
CopyPositions ==
    /\ pc = "copy"
    /\ heap3d' = [heap3d EXCEPT ![positions_3d] = Sync3d(@, positions)]
    /\ run_trace' = Append(run_trace, RunCall("copy", FALSE, TRUE))
    /\ pc' = NextPc(pc)
    /\ UNCHANGED <<n_particles, r_min, r_max, v_max, initialised, positions,
                   positions_3d, sizes, particles, actors, escaped, eng_allocated,
                   eng_pos, eng_sizes, reset_cam, iter, exc, eng_trace, init_args,
                   returned, n_inits, runs, teardowns, n_fail, init_exc, del_deallocs>>

\* (mutant) every frame builds a new Particles object on the 3D array
CollectionUpdate_Rebuilds ==
    /\ pc = "particles_update"
    /\ particles' = ParticlesInit(positions_3d, heap3d[positions_3d], sizes,
                                  Cardinality(actors))
    /\ actors' = actors \cup SphereIds(particles')
    /\ run_trace' = Append(run_trace, RunCall("particles_update", FALSE, TRUE))
    /\ pc' = NextPc(pc)
    /\ UNCHANGED <<n_particles, r_min, r_max, v_max, initialised, positions,
                   positions_3d, sizes, heap3d, escaped, eng_allocated,
                   eng_pos, eng_sizes, reset_cam, iter, exc, eng_trace, init_args,
                   returned, n_inits, runs, teardowns, n_fail, init_exc, del_deallocs>>

\* line 155: self.__particles.update()
CollectionUpdate ==
    /\ pc = "particles_update"
    /\ particles' = ParticlesUpdate(particles, heap3d)
    /\ run_trace' = Append(run_trace, RunCall("particles_update", FALSE, TRUE))
    /\ pc' = NextPc(pc)
    /\ UNCHANGED <<n_particles, r_min, r_max, v_max, initialised, positions,
                   positions_3d, sizes, heap3d, actors, escaped, eng_allocated,
                   eng_pos, eng_sizes, reset_cam, iter, exc, eng_trace, init_args,
                   returned, n_inits, runs, teardowns, n_fail, init_exc, del_deallocs>>

\* line 157: self.__plt.show(resetcam=reset_cam, axes=1); the plotter handles
\* the pending key events, so ESC may be noted during the call
Show ==
    /\ pc = "show"
    /\ run_trace' = Append(run_trace, RunCall("show", reset_cam, TRUE))
    /\ escaped' \in (IF escaped THEN {TRUE} ELSE BOOLEAN)
    /\ pc' = NextPc(pc)
    /\ UNCHANGED <<n_particles, r_min, r_max, v_max, initialised, positions,
                   positions_3d, sizes, particles, heap3d, actors, eng_allocated,
                   eng_pos, eng_sizes, reset_cam, iter, exc, eng_trace, init_args,
                   returned, n_inits, runs, teardowns, n_fail, init_exc, del_deallocs>>

\* (mutant) reset_cam is never cleared
ClearResetCam_Keeps(flag) == flag

\* lines 159-160: the flag is cleared once it has been used
ClearResetCam(flag) == IF flag THEN FALSE ELSE flag

\* (mutant) the loop is left when ESC has not been pressed
LoopExits_Negated(esc) == ~esc

\* lines 162-163: break when getattr(plt, "escaped", False)
LoopExits(esc) == esc

\* lines 159-163: clear reset_cam, read plt.escaped, break or loop
Check ==
    /\ pc = "check"
    /\ run_trace' = Append(run_trace, RunCall("check", escaped, TRUE))
    /\ IF LoopExits(escaped)
       THEN pc' = "idle" /\ reset_cam' = FALSE /\ iter' = 0
       ELSE /\ iter < MaxIters
            /\ pc' = NextPc(pc)
            /\ reset_cam' = ClearResetCam(reset_cam)
            /\ iter' = iter + 1
    /\ UNCHANGED <<n_particles, r_min, r_max, v_max, initialised, positions,
                   positions_3d, sizes, particles, heap3d, actors, escaped,
                   eng_allocated, eng_pos, eng_sizes, exc, eng_trace, init_args,
                   returned, n_inits, runs, teardowns, n_fail, init_exc, del_deallocs>>

\* the user presses ESC in the plotter window while no method is running
SceneEscape ==
    /\ pc = "idle" /\ ~escaped
    /\ escaped' = TRUE
    /\ UNCHANGED <<n_particles, r_min, r_max, v_max, initialised, positions,
                   positions_3d, sizes, particles, heap3d, actors, eng_allocated,
                   eng_pos, eng_sizes, pc, reset_cam, iter, exc, eng_trace,
                   init_args, run_trace, returned, n_inits, runs, teardowns, n_fail, init_exc, del_deallocs>>

Next ==
    \/ Construct \/ SetNParticles \/ SetRMin \/ SetRMax \/ SetVMax \/ Del
    \/ RunBegin \/ CollisionCheck \/ BoundaryCheck \/ EngineUpdate \/ GetPositions
    \/ CopyPositions \/ CollectionUpdate \/ Show \/ Check \/ SceneEscape

Spec == Init /\ [][Next]_vars

\* a statement of run()'s loop
LoopStep ==
    \/ CollisionCheck \/ BoundaryCheck \/ EngineUpdate \/ GetPositions
    \/ CopyPositions \/ CollectionUpdate \/ Show \/ Check

\* the steps of a simulation object that is alive: __del__ only runs between
\* method calls and nothing runs after it, so every state of run() is reached
\* without it
NextAlive ==
    \/ Construct \/ SetNParticles \/ SetRMin \/ SetRMax \/ SetVMax
    \/ RunBegin \/ LoopStep \/ SceneEscape

\* run() is one thread executing its statements in sequence, and every call it
\* makes returns or raises: a loop statement that is reached is executed
SpecFair == Init /\ [][NextAlive]_vars /\ WF_vars(LoopStep)

----------------------------------------------------------------------------
\* Particles used on its own: Particles(plt, positions, sizes) on a [lp,3]
\* array and a [ls] array of any lengths, followed by writes to the array and
\* update() calls.  The simulation's attributes hold the two arrays.

\* the [n,3] arrays handed to Particles
TestArrays(n) == {[i \in 1..n |-> <<s + i, s * i, 0>>] : s \in Coord}

InitColl ==
    /\ n_particles = 0 /\ r_min = 0 /\ r_max = 0 /\ v_max = 0
    /\ initialised = FALSE
    /\ positions = <<>>
    /\ positions_3d = 1
    /\ \E lp \in 0..MaxLen : \E a \in TestArrays(lp) : heap3d = [k \in {1} |-> a]
    /\ \E ls \in 0..MaxLen : sizes \in SeqN(Params, ls)
    /\ particles = None
    /\ actors = {}
    /\ escaped = FALSE
    /\ eng_allocated = FALSE /\ eng_pos = <<>> /\ eng_sizes = <<>>
    /\ pc = "coll_new" /\ reset_cam = FALSE /\ iter = 0
    /\ exc = "none"
    /\ eng_trace = <<>> /\ init_args = NoArgs /\ run_trace = <<>>
    /\ returned = <<>>
    /\ init_exc = "none" /\ del_deallocs = 0
    /\ n_inits = 0 /\ runs = 0 /\ teardowns = 0 /\ n_fail = 0

\* Particles(plt, positions, sizes) (lines 75-83); no statement of it raises
NewParticles ==
    /\ pc = "coll_new"
    /\ particles' = ParticlesInit(positions_3d, heap3d[positions_3d], sizes,
                                  Cardinality(actors))
    /\ actors' = actors \cup SphereIds(particles')
    /\ exc' = "none"
    /\ pc' = "coll_built"
    /\ UNCHANGED <<n_particles, r_min, r_max, v_max, initialised, positions,
                   positions_3d, sizes, heap3d, escaped, eng_allocated, eng_pos,
                   eng_sizes, reset_cam, iter, eng_trace, init_args, run_trace,
                   returned, init_exc, del_deallocs, n_inits, runs, teardowns, n_fail>>

\* the owner of the array writes new coordinates into it
WriteArray ==
    \E a \in TestArrays(Len(heap3d[positions_3d])) :
        /\ pc = "coll_built"
        /\ heap3d' = [heap3d EXCEPT ![positions_3d] = a]
        /\ pc' = "coll_written"
        /\ UNCHANGED <<n_particles, r_min, r_max, v_max, initialised, positions,
                       positions_3d, sizes, particles, actors, escaped, eng_allocated,
                       eng_pos, eng_sizes, reset_cam, iter, exc, eng_trace, init_args,
                       run_trace, returned, init_exc, del_deallocs, n_inits, runs,
                       teardowns, n_fail>>

\* Particles.update() (lines 85-88)
UpdateParticles ==
    /\ pc = "coll_written"
    /\ particles' = ParticlesUpdate(particles, heap3d)
    /\ pc' = "coll_built"
    /\ UNCHANGED <<n_particles, r_min, r_max, v_max, initialised, positions,
                   positions_3d, sizes, heap3d, actors, escaped, eng_allocated,
                   eng_pos, eng_sizes, reset_cam, iter, exc, eng_trace, init_args,
                   run_trace, returned, init_exc, del_deallocs, n_inits, runs,
                   teardowns, n_fail>>

\* the colors and tessellations a caller hands to the setters
Colors == {"gray", "red"}
Resolutions == {DefaultRes, 2 * DefaultRes}

\* the Particles object with particle i replaced by p
WithParticle(coll, i, p) == [coll EXCEPT !.particles[i] = p]

\* a setter call on one Particle of the collection (made between two frames),
\* leaving the collection coll
SetAttribute(coll) ==
    /\ pc = "coll_built"
    /\ particles' = coll
    /\ UNCHANGED <<n_particles, r_min, r_max, v_max, initialised, positions,
                   positions_3d, sizes, heap3d, actors, escaped, eng_allocated,
                   eng_pos, eng_sizes, pc, reset_cam, iter, exc, eng_trace,
                   init_args, run_trace, returned, init_exc, del_deallocs, n_inits,
                   runs, teardowns, n_fail>>

\* p.r = r (lines 48-50)
SetR ==
    \E i \in 1..MaxLen, r \in Params :
        /\ particles # None /\ i \in DOMAIN particles.particles
        /\ SetAttribute(WithParticle(particles, i, RSetter(particles.particles[i], r)))

\* p.color = c (lines 56-58)
SetColor ==
    \E i \in 1..MaxLen, c \in Colors :
        /\ particles # None /\ i \in DOMAIN particles.particles
        /\ SetAttribute(WithParticle(particles, i, ColorSetter(particles.particles[i], c)))

\* p.res = res (lines 64-66)
SetRes ==
    \E i \in 1..MaxLen, res \in Resolutions :
        /\ particles # None /\ i \in DOMAIN particles.particles
        /\ SetAttribute(WithParticle(particles, i, ResSetter(particles.particles[i], res)))

NextColl ==
    \/ NewParticles \/ WriteArray \/ UpdateParticles
    \/ SetR \/ SetColor \/ SetRes

SpecColl == InitColl /\ [][NextColl]_vars

----------------------------------------------------------------------------
\* Properties

Last(q) == q[Len(q)]

\* the calls op of the current run() that returned
Returned(op) == {j \in DOMAIN run_trace : run_trace[j].op = op /\ run_trace[j].ok}

\* positions p as the [n,3] rows they are rendered at
Rendered(p) == [i \in 1..Len(p) |-> <<p[i][1], p[i][2], 0>>]

\* C1: for an initialised simulation, two teardowns (__del__ twice) make exactly
\* one deallocate_system call: the second one is guarded by the initialised flag
\* and makes none.
C1_TeardownDeallocatesOnce ==
    (initialised /\ teardowns = 2) => del_deallocs = 1

\* C2: in the trace of init_system / deallocate_system calls there are never two
\* init_system calls without a deallocate_system call between them: every
\* reinitialisation deallocates before it initialises.
C2_DeallocateBeforeInit ==
    \A i, j \in DOMAIN eng_trace :
        (i < j /\ eng_trace[i].op = "init_system" /\ eng_trace[j].op = "init_system")
        => \E k \in (i + 1)..(j - 1) : eng_trace[k].op = "deallocate_system"

\* an initialised simulation has been reinitialised by a setter
C2_Witness ==
    /\ pc = "idle" /\ n_inits = 2
    /\ Cardinality({j \in DOMAIN eng_trace : eng_trace[j].op = "init_system"}) = 2
    /\ Cardinality({j \in DOMAIN eng_trace : eng_trace[j].op = "deallocate_system"}) = 1

\* C3: after the construction and after every __init_system that returned, the
\* positions array, the sizes array, the 3D array and the list of Particle
\* objects all have n_particles elements.
C3_LengthsEqualCount ==
    (pc # "new" /\ init_exc = "none") =>
        /\ Len(positions) = n_particles
        /\ Len(sizes) = n_particles
        /\ Len(heap3d[positions_3d]) = n_particles
        /\ particles # None
        /\ Len(particles.particles) = n_particles

\* n_particles went from 2 to 1 in a reinitialisation that returned
C3_Witness ==
    /\ n_inits = 2 /\ init_exc = "none"
    /\ n_particles = 1 /\ Cardinality(actors) = 3

\* C4: at every synchronisation point (the end of __init_system, the copy of
\* every loop iteration) row i of the 3D array is (x_i, y_i, 0) for the row
\* (x_i, y_i) of the positions array.  The two arrays differ only between
\* get_positions and the copy that follows it.
C4_RenderBufferSynced ==
    (pc # "new" /\ pc # "copy") => heap3d[positions_3d] = Rendered(positions)

\* the copy of the second iteration after a reinitialisation has just run
C4_Witness ==
    /\ pc = "particles_update" /\ iter = 2 /\ n_inits = 2
    /\ positions # Zeros2(n_particles)

\* C5: when plt.escaped is first read true at the check of iteration k, run()
\* has made exactly k full cycles (k of each engine step, k shows, k checks)
\* and returns; a run() that returned normally ended on such a check.
C5_ExitsAfterKCycles ==
    /\ \A j \in DOMAIN run_trace :
         (run_trace[j].op = "check" /\ run_trace[j].flag) =>
            /\ j = Len(run_trace)
            /\ pc \in {"idle", "deleted"}
            /\ \A op \in {"collision_check", "boundary_check", "update",
                          "get_positions", "copy", "particles_update", "show",
                          "check"} :
                 Cardinality(Returned(op)) = run_trace[j].iter
    /\ (pc \in {"idle", "deleted"} /\ run_trace # <<>> /\ Last(run_trace).ok) =>
            (Last(run_trace).op = "check" /\ Last(run_trace).flag)

\* run() returned after ESC was first seen at the check of iteration 3
C5_Witness ==
    /\ pc = "idle" /\ run_trace # <<>>
    /\ Last(run_trace).op = "check" /\ Last(run_trace).flag
    /\ Last(run_trace).iter = 3

\* C6: in one run(), resetcam given to plt.show is True in iteration 1 and False
\* in every later iteration.
C6_ResetCamFirstFrameOnly ==
    \A j \in DOMAIN run_trace :
        run_trace[j].op = "show" => (run_trace[j].flag <=> run_trace[j].iter = 1)

\* a third frame has been shown
C6_Witness ==
    \E j \in DOMAIN run_trace : run_trace[j].op = "show" /\ run_trace[j].iter = 3

\* C7: every iteration of run() makes its calls in the order collision_check,
\* boundary_check, update, get_positions, copy into the 3D array,
\* Particles.update, show, escape check, each once.
C7_IterationOrder ==
    LET order == <<"collision_check", "boundary_check", "update", "get_positions",
                   "copy", "particles_update", "show", "check">>
    IN  \A j \in DOMAIN run_trace :
            /\ run_trace[j].op = order[((j - 1) % 8) + 1]
            /\ run_trace[j].iter = ((j - 1) \div 8) + 1

\* two full iterations have been made
C7_Witness ==
    Len(run_trace) = 16 /\ Last(run_trace).ok

\* C8: Particles(plt, positions, sizes) with arrays of different lengths raises
\* InvalidArgument and creates no Particle (nothing is added to the plotter).
C8_MismatchRejected ==
    (pc = "coll_built" /\ Len(heap3d[positions_3d]) # Len(sizes)) =>
        /\ exc = "InvalidArgument"
        /\ particles = None
        /\ actors = {}

\* C9: after each completed iteration of run(), Particle i is at (x_i, y_i, 0)
\* (its pos and its sphere) for the i-th position get_positions returned in
\* that iteration, and there is one Particle per engine particle.
C9_EntitiesFollowEngine ==
    (run_trace # <<>> /\ Last(run_trace).op = "check"
        /\ pc \in {"idle", "collision_check"}) =>
        /\ Len(particles.particles) = Len(returned)
        /\ \A i \in DOMAIN particles.particles :
             /\ PosValue(particles.particles[i], heap3d) = Rendered(returned)[i]
             /\ particles.particles[i].vsphere.pos = Rendered(returned)[i]

\* C10: whenever the simulation is initialised, the arguments of the most recent
\* init_system call are its current n_particles, r_min, r_max and v_max.
C10_InitArgsCurrent ==
    initialised => init_args = <<n_particles, r_min, r_max, v_max>>

\* a setter has changed a parameter and its reinitialisation has returned
C10_Witness ==
    /\ initialised /\ n_inits = 2 /\ init_exc = "none" /\ pc = "idle"
    /\ r_min # r_max

\* C11: after any reinitialisations the spheres registered with the plotter are
\* exactly the spheres of the current Particle objects, n_particles of them: the
\* spheres of the previous collection have been removed.
C11_SceneHoldsCurrentSpheres ==
    (particles # None /\ init_exc = "none") =>
        /\ actors = SphereIds(particles)
        /\ Cardinality(actors) = n_particles

\* the init_system calls made so far
InitCalls == {j \in DOMAIN eng_trace : eng_trace[j].op = "init_system"}

\* C12: a driver call that raises in run() or in __init_system is not made again
\* and nothing after it is executed: the failed call is the last call of run(),
\* which has returned to the caller with that exception, each __init_system makes
\* one init_system call, and the arrays hold what they held when the call raised
\* (run: the last fetched positions, or the zeros a failed __init_system left,
\* already copied to the 3D array; __init_system, seen when it has just raised:
\* the fresh zero arrays, the sizes only when get_sizes had returned, the
\* Particles object and the initialised flag not touched).
C12_FailurePropagates ==
    /\ \A j \in DOMAIN run_trace : ~run_trace[j].ok =>
          /\ j = Len(run_trace)
          /\ pc \in {"idle", "deleted"}
          /\ pc = "idle" => exc = run_trace[j].op
          /\ \/ positions = returned
             \/ /\ Returned("get_positions") = {} /\ init_exc # "none"
                /\ positions = Zeros2(n_particles)
          /\ heap3d[positions_3d] = Rendered(positions)
    /\ Cardinality(InitCalls) = n_inits
    /\ (init_exc # "none" /\ exc = init_exc /\ run_trace = <<>>) =>
          /\ pc \in {"idle", "ctor_failed"}
          /\ \E j \in InitCalls :
                /\ \A k \in InitCalls : k <= j
                /\ eng_trace[j].ok = (init_exc # "init_system")
          /\ positions = Zeros2(n_particles)
          /\ heap3d[positions_3d] = Zeros3(n_particles)
          /\ sizes = IF init_exc = "get_positions"
                     THEN EngineSizes(n_particles, r_min, r_max)
                     ELSE Zeros1(n_particles)
          /\ particles = None \/ particles.positions # positions_3d
          /\ initialised = (n_inits > 1)

\* get_positions raised in the second iteration of run()
C12_Witness ==
    \E j \in DOMAIN run_trace :
        /\ ~run_trace[j].ok /\ run_trace[j].op = "get_positions"
        /\ run_trace[j].iter = 2

\* the stored attributes a step changes on the Particle objects
ChangedAttributes ==
    {<<i, f>> \in (DOMAIN particles.particles) \X {"r", "color", "res"} :
        particles'.particles[i][f] # particles.particles[i][f]}

\* C14: a call of the r, color or res setter of a Particle changes that one
\* stored attribute and nothing else: the Particle's position, its sphere (size,
\* color, tessellation, placement) and the spheres the plotter holds stay as they
\* were; a sphere only ever changes through the pos setter, and then only in its
\* placement.
C14_SettersStoreOnly ==
    [][particles # None =>
        /\ particles' # None
        /\ DOMAIN particles'.particles = DOMAIN particles.particles
        /\ pc' = pc =>
              /\ Cardinality(ChangedAttributes) <= 1
              /\ actors' = actors /\ heap3d' = heap3d
              /\ \A i \in DOMAIN particles.particles :
                    /\ particles'.particles[i].pos = particles.particles[i].pos
                    /\ particles'.particles[i].vsphere = particles.particles[i].vsphere
        /\ \A i \in DOMAIN particles.particles :
              particles'.particles[i].vsphere # particles.particles[i].vsphere =>
                  /\ pc = "coll_written" /\ pc' = "coll_built"
                  /\ [particles'.particles[i].vsphere
                        EXCEPT !.pos = particles.particles[i].vsphere.pos]
                     = particles.particles[i].vsphere
                  /\ ChangedAttributes = {}
    ]_vars

\* every stored attribute of a Particle has been set away from its sphere's
C14_Witness ==
    /\ particles # None
    /\ \E i \in DOMAIN particles.particles :
          LET p == particles.particles[i]
          IN  /\ p.r # p.vsphere.r /\ p.color # p.vsphere.c /\ p.res # p.vsphere.res
              /\ p.vsphere.pos # PosValue(p, heap3d)

\* C15: deallocate_system is only ever called while engine state is allocated:
\* never before an init_system call that returned and never twice for one
\* allocation.
C15_DeallocateOnlyWhenAllocated ==
    \A j \in DOMAIN eng_trace :
        eng_trace[j].op = "deallocate_system" => eng_trace[j].live

\* C16: the array the current Particles object reads its positions from is the
\* very array self.__positions_3d that run() writes into.
C16_CollectionBoundToRenderBuffer ==
    particles # None => particles.positions = positions_3d

\* the statements of run()'s loop
LoopPcs == {RunOrder[k] : k \in DOMAIN RunOrder}

\* C17: no step of run() (entering the loop, a statement of the loop, leaving
\* it) calls init_system, get_sizes or deallocate_system, and none changes the
\* parameters, the initialised flag, the sizes array, the number of Particle
\* objects, their radii or the spheres the plotter holds.
C17_RunKeepsSetup ==
    [][(pc \in LoopPcs \/ pc' \in LoopPcs) =>
        /\ eng_trace' = eng_trace /\ n_inits' = n_inits /\ init_args' = init_args
        /\ eng_sizes' = eng_sizes /\ eng_allocated' = eng_allocated
        /\ <<n_particles, r_min, r_max, v_max>>' = <<n_particles, r_min, r_max, v_max>>
        /\ initialised' = initialised
        /\ sizes' = sizes
        /\ actors' = actors
        /\ particles # None /\ particles' # None
        /\ particles'.sizes = particles.sizes
        /\ DOMAIN particles'.particles = DOMAIN particles.particles
        /\ \A i \in DOMAIN particles.particles :
              /\ particles'.particles[i].r = particles.particles[i].r
              /\ particles'.particles[i].vsphere.r = particles.particles[i].vsphere.r
              /\ particles'.particles[i].vsphere.id = particles.particles[i].vsphere.id
    ]_vars

\* run() has returned after two iterations on a reinitialised simulation
C17_Witness ==
    /\ pc = "idle" /\ n_inits = 2 /\ init_exc = "none"
    /\ run_trace # <<>>
    /\ Last(run_trace).op = "check" /\ Last(run_trace).iter = 2

\* every read of plt.escaped directly follows the show call of its iteration,
\* every show call is followed by one, and no iteration reads it twice
PolledOnceAfterShow ==
    /\ \A j \in DOMAIN run_trace :
          /\ run_trace[j].op = "check" =>
                /\ j > 1 /\ run_trace[j - 1].op = "show"
                /\ run_trace[j - 1].iter = run_trace[j].iter
          /\ (run_trace[j].op = "show" /\ j < Len(run_trace)) =>
                run_trace[j + 1].op = "check"
          /\ (run_trace[j].op = "check" /\ run_trace[j].flag) =>
                (j = Len(run_trace) /\ pc \notin LoopPcs)
    /\ \A i, j \in DOMAIN run_trace :
          (i < j /\ run_trace[i].op = "check" /\ run_trace[j].op = "check")
          => run_trace[i].iter < run_trace[j].iter
    /\ pc = "check" => (run_trace # <<>> /\ Last(run_trace).op = "show")

\* with ESC pressed the loop is in the iteration it was in when ESC was noted:
\* either at the read that follows the show call which noted it, or in the
\* first iteration of a run() that began with ESC pressed
ExitsWithinOneCycle ==
    (escaped /\ pc \in LoopPcs /\ pc # "check") => iter = 1

\* C13: plt.escaped is read exactly once per iteration, after the show call;
\* once ESC is pressed run() makes at most one more pass over the engine calls
\* and one more show call, and it returns.
C13_PolledOnceAndTerminates ==
    /\ [](PolledOnceAfterShow /\ ExitsWithinOneCycle)
    /\ (escaped /\ pc \in LoopPcs) ~> (pc \notin LoopPcs)

\* run() began with ESC already pressed and is showing its one frame
C13_Witness ==
    escaped /\ pc = "show" /\ iter = 1 /\ reset_cam

====
